---- MODULE Spec2Model ----
(***************************************************************************)
(* A model of src/python/api_to_bigquery.py (class APIToBigQueryPipeline): *)
(* the OAuth token cache, request_with_retry, the pagination loop of       *)
(* fetch_data_from_api, the window planner find_optimal_period_end /       *)
(* find_optimal_period_by_hour, the EntityTooLarge fallback                *)
(* handle_response_too_large_error and run_pipeline.                       *)
(*                                                                         *)
(* The clock `now` counts half seconds (the shortest sleep of the source   *)
(* is time.sleep(0.5)).  Window instants count ticks; an hour is HourTicks *)
(* ticks (the source's resolution is the microsecond).                     *)
(***************************************************************************)
EXTENDS Integers, Sequences, FiniteSets, TLC

VARIABLES now, oauth_token, token_expires_at, env, pg, rr, data, pl,
          stack, ret, run, obs

authVars == <<now, oauth_token, token_expires_at>>
pageVars == <<pg, rr>>
callVars == <<stack, ret, run>>
vars ==
    <<now, oauth_token, token_expires_at, env, pg, rr, data, pl, stack, ret, run, obs>>

(***************************************************************************)
(* Bounds of the model.                                                    *)
(***************************************************************************)
\* failing responses the upstream may give during one run of a specification
MaxFaults == 4
\* the last page of a pagination loop on which the upstream may fail
MaxFaultPage == 2
\* the latest stored validity limit (half seconds after the start) of a token
\* already cached when the pagination loop is entered
MaxCachedLimit == 3
\* ticks per hour: the resolution of window instants
HourTicks == 2
\* the most groups of records (bursts) sharing one instant in the upstream
MaxBursts == 2
\* EntityTooLarge answers the upstream may give during one run
MaxRunTooLarge == 6
\* other failures the upstream may give during one run
MaxRunFaults == 5
\* absent probes the upstream may give during one run
MaxRunAbsents == 1
\* the longest key and the most fields of a record given to the column mapping
MaxKeyLen == 2
MaxFields == 2
\* absent probes the upstream may give during one adaptive fetch
MaxTermAbsents == 2

(***************************************************************************)
(* Program constants.                                                      *)
(***************************************************************************)
\* request_with_retry(max_retries=3, initial_wait=2)
max_retries == 3
initial_wait == 2
\* fetch_data_from_api: page_size = 20, max_pages = 100
page_size == 20
max_pages == 100
\* get_oauth_token: expires_in - 60 (the one-minute margin), default 3600
ExpiryMargin == 60
DefaultExpiresIn == 3600
\* __init__: self.max_records_per_period = 1500
max_records_per_period == 1500
\* timedelta(days=1) is 24 hours
DayTicks == 24 * HourTicks
\* get_estimated_count returns None
Absent == 0 - 1

\* the return register: nothing, a returned list, or a raised exception
NoRet == [kind |-> "none", val |-> <<>>, exc |-> ""]
Returned(v) == [kind |-> "value", val |-> v, exc |-> ""]
Raised(e) == [kind |-> "exc", val |-> <<>>, exc |-> e]

\* run_pipeline's locals before the call, the keys of its summary (status,
\* records_processed, error) and its history: how the fetch ended, the last
\* operation on the batch buffer, the buffer's size when the last load job
\* was started, the sizes of the batches loaded, the summaries returned
RunIdle ==
    [pc |-> "idle", fetch_from |-> 0, fetch_to |-> 0, batch_size |-> 0,
     raw_data |-> <<>>, remaining |-> 0, batch_data |-> 0, batch_count |-> 0,
     total_processed |-> 0, status |-> "", records_processed |-> Absent,
     error |-> "", fetched |-> "", last_op |-> "", flush_size |-> 0,
     flushed |-> 0, summaries |-> 0, mid |-> 0, left_data |-> <<>>,
     right_data |-> <<>>]

Min(a, b) == IF a <= b THEN a ELSE b
Max(a, b) == IF a >= b THEN a ELSE b

(***************************************************************************)
(* Upstream responses to one HTTP request.                                 *)
(***************************************************************************)
Statuses == {200, 400, 401, 403, 404, 429, 500, 502, 503, 504}

Http(s, big) == [kind |-> "http", status |-> s, too_large |-> big]
TimeoutResp == [kind |-> "timeout", status |-> 0, too_large |-> FALSE]
ConnErrResp == [kind |-> "connerr", status |-> 0, too_large |-> FALSE]
NoResp == [kind |-> "none", status |-> 0, too_large |-> FALSE]

\* too_large: the body contains "Response Entity Too Large"
Responses ==
    {Http(s, big) : s \in Statuses, big \in BOOLEAN} \cup {TimeoutResp, ConnErrResp}

IsSuccess(resp) == resp.kind = "http" /\ resp.status < 400

(***************************************************************************)
(* get_oauth_token                                                         *)
(***************************************************************************)
\* line 116: the cached token is reused iff now < token_expires_at
TokenValid == oauth_token # 0 /\ now < token_expires_at

\* line 151: token_expires_at = now + (expires_in - 60) seconds
ExpiresAt(expires_in) == now + 2 * (expires_in - ExpiryMargin)

\* expires_in values the token endpoint may answer (seconds); absent => 3600
ExpiresInSet == {61, DefaultExpiresIn}

(***************************************************************************)
(* request_with_retry                                                      *)
(***************************************************************************)
\* line 430
IsEntityTooLargeWrongText(resp) == FALSE
IsEntityTooLarge(resp) == resp.status = 500 /\ resp.too_large

\* lines 440, 457, 468: wait_time *= 2
NextWaitLinear(w) == w + initial_wait
NextWait(w) == w * 2

\* What one loop iteration does with the response of its request
\* (lines 407-477): "return", "retry", "raise" or "etl"; "again" is line 451,
\* raise_for_status() on a status of 600 or more, which raises nothing and
\* lets the loop send again.
OnResponseRetryAll(resp, retry_count) ==
    IF resp.kind \in {"timeout", "connerr"}
    THEN IF retry_count < max_retries THEN "retry" ELSE "raise"
    ELSE IF resp.status < 400 THEN "return"
    ELSE IF IsEntityTooLarge(resp) THEN "etl"
    ELSE IF retry_count < max_retries THEN "retry" ELSE "raise"
OnResponse(resp, retry_count) ==
    IF resp.kind \in {"timeout", "connerr"}
    THEN IF retry_count < max_retries THEN "retry" ELSE "raise"
    ELSE IF resp.status < 400 THEN "return"
    ELSE IF 400 <= resp.status /\ resp.status < 500 THEN "raise"
    ELSE IF 500 <= resp.status /\ resp.status < 600
         THEN IF IsEntityTooLarge(resp) THEN "etl"
              ELSE IF retry_count < max_retries THEN "retry" ELSE "raise"
    ELSE "again"

\* The message of the exception a "raise" carries.
ExcOf(resp) ==
    IF resp.kind = "timeout" THEN "timeout after retries"
    ELSE IF resp.kind = "connerr" THEN "connection error after retries"
    ELSE IF resp.status = 401 THEN "auth error 401"
    ELSE IF resp.status = 403 THEN "forbidden 403"
    ELSE IF resp.status = 400 THEN "bad request 400"
    ELSE IF resp.status < 500 THEN "client error"
    ELSE "server error after retries"

RRIdle ==
    [pc |-> "idle", retry_count |-> 0, wait_time |-> initial_wait, nreq |-> 0,
     sleeps |-> <<>>, kinds |-> <<>>, last |-> NoResp, exc |-> "", sent_at |-> 0]

\* lines 395-396: a fresh call
RRCall == [RRIdle EXCEPT !.pc = "send"]

\* time.sleep(d half seconds); the clock only runs in the timed specification
Slept(d) == IF env.timed THEN now + d ELSE now

\* history: a 401 has been answered; a request was issued after it; a batch
\* was loaded after it; some probe or page request has failed; the hits
\* returned by all page requests; the batches and records the warehouse
\* has taken; a load job has failed; a load job was started after that
ObsInit ==
    [unauth |-> FALSE, late_request |-> FALSE, late_load |-> FALSE,
     failed |-> FALSE, hits |-> 0, loads |-> 0, warehouse |-> 0,
     load_failed |-> FALSE, load_after_failure |-> FALSE]
NoteRequest == [obs EXCEPT !.late_request = @ \/ obs.unauth]
NoteUnauthorized == [obs EXCEPT !.unauth = TRUE, !.failed = TRUE]
NoteFailed == [obs EXCEPT !.failed = TRUE]
NoteProbe(o) == [NoteRequest EXCEPT !.failed = @ \/ o = Absent]
NoteLoad == [obs EXCEPT !.late_load = @ \/ obs.unauth]
\* a load job of n records has appended them to the table (WRITE_APPEND)
NoteLoaded(n) ==
    [NoteLoad EXCEPT !.loads = @ + 1, !.warehouse = @ + n,
                     !.load_after_failure = @ \/ obs.load_failed]
\* a load job has raised GoogleCloudError
NoteLoadFailed ==
    [NoteLoad EXCEPT !.load_failed = TRUE,
                     !.load_after_failure = @ \/ obs.load_failed]
NoteHits(n) == [obs EXCEPT !.hits = @ + n]

\* lines 398-404: one request goes out
SendRequest ==
    /\ rr.pc = "send"
    /\ rr' = [rr EXCEPT !.pc = "await", !.nreq = @ + 1, !.sent_at = now]
    /\ obs' = NoteRequest
    /\ UNCHANGED <<now, oauth_token, token_expires_at, env, pg, data, pl, stack, ret, run>>

\* The responses the upstream may give to the request in flight: success, or
\* one of the failures env.answers within the budgets of the specification
\* (env.unauth answers of 401, env.etl answers of EntityTooLarge, env.faults
\* other failures).
MayAnswer(resp) ==
    \/ resp = Http(200, FALSE)
    \/ /\ resp \in env.answers
       /\ pg.page <= MaxFaultPage
       /\ IF resp.status = 401 THEN env.unauth > 0
          ELSE IF IsEntityTooLarge(resp) THEN env.etl > 0
          ELSE env.faults > 0

EnvAfterAnswer(resp) ==
    IF IsSuccess(resp) THEN env
    ELSE IF resp.status = 401 THEN [env EXCEPT !.unauth = @ - 1]
    ELSE IF IsEntityTooLarge(resp) THEN [env EXCEPT !.etl = @ - 1]
    ELSE [env EXCEPT !.faults = @ - 1]

KindOf(resp) ==
    IF resp.kind = "http" THEN (IF resp.status < 500 THEN "4xx" ELSE "5xx")
    ELSE resp.kind

\* lines 406-477: the response arrives and is dispatched
Respond ==
    /\ rr.pc = "await"
    /\ \E resp \in Responses :
        /\ MayAnswer(resp)
        /\ LET what == OnResponse(resp, rr.retry_count)
               seen == [rr EXCEPT !.last = resp, !.kinds = Append(@, KindOf(resp))]
           IN
            /\ env' = EnvAfterAnswer(resp)
            /\ obs' = IF resp.status = 401 THEN NoteUnauthorized
                      ELSE IF IsSuccess(resp) THEN obs ELSE NoteFailed
            /\ CASE what = "return" ->
                      /\ rr' = [seen EXCEPT !.pc = "returned"]
                      /\ now' = now
                 [] what = "etl" ->
                      /\ rr' = [seen EXCEPT !.pc = "etl", !.exc = "ResponseEntityTooLargeError"]
                      /\ now' = now
                 [] what = "raise" ->
                      /\ rr' = [seen EXCEPT !.pc = "raised", !.exc = ExcOf(resp)]
                      /\ now' = now
                 [] what = "again" ->
                      /\ rr' = [seen EXCEPT !.pc = "send"]
                      /\ now' = now
                 [] what = "retry" ->
                      /\ rr' = [seen EXCEPT !.pc = "send",
                                            !.sleeps = Append(@, rr.wait_time),
                                            !.wait_time = NextWait(@),
                                            !.retry_count = @ + 1]
                      /\ now' = Slept(2 * rr.wait_time)
    /\ UNCHANGED <<oauth_token, token_expires_at, pg, data, pl, stack, ret, run>>

(***************************************************************************)
(* fetch_data_from_api, lines 627-726: the pagination loop of one window   *)
(***************************************************************************)
\* The hits of the page at `offset` of a window holding `total` records.
HitsInPage(total, offset) == Min(page_size, Max(0, total - offset))

PGIdle ==
    [pc |-> "idle", total |-> 0, page |-> 0, offset |-> 0, ndata |-> 0,
     bearer |-> 0, exc |-> ""]

\* lines 627-638: entry of the pagination section for a window of `total` records
PGCall(total) == [PGIdle EXCEPT !.pc = "auth", !.total = total]

\* lines 631-632: no OAuth configured, static headers
AuthNone ==
    /\ pg.pc = "auth"
    /\ ~env.oauth
    /\ pg' = [pg EXCEPT !.pc = "loop"]
    /\ UNCHANGED <<now, oauth_token, token_expires_at, env, rr, data, pl, stack, ret, run, obs>>

\* lines 116-117: the cached token is still valid
AuthReuse ==
    /\ pg.pc = "auth"
    /\ env.oauth
    /\ TokenValid
    /\ pg' = [pg EXCEPT !.pc = "loop", !.bearer = oauth_token]
    /\ UNCHANGED <<now, oauth_token, token_expires_at, env, rr, data, pl, stack, ret, run, obs>>

\* lines 119-154: a new token is issued
AuthRefresh ==
    /\ pg.pc = "auth"
    /\ env.oauth
    /\ ~TokenValid
    /\ \E expires_in \in ExpiresInSet :
        /\ oauth_token' = oauth_token + 1
        /\ token_expires_at' = ExpiresAt(expires_in)
        /\ pg' = [pg EXCEPT !.pc = "loop", !.bearer = oauth_token + 1]
    /\ UNCHANGED <<now, env, rr, data, pl, stack, ret, run, obs>>

\* lines 156-158: the token endpoint answers with an HTTP error
AuthFail ==
    /\ pg.pc = "auth"
    /\ env.oauth
    /\ ~TokenValid
    /\ env.faults > 0
    /\ env' = [env EXCEPT !.faults = @ - 1]
    /\ pg' = [pg EXCEPT !.pc = "raised", !.exc = "OAuth token acquisition failed"]
    /\ UNCHANGED <<now, oauth_token, token_expires_at, rr, data, pl, stack, ret, run, obs>>

\* lines 646-683: the loop test, page += 1 and the call of request_with_retry
PageBegin ==
    /\ pg.pc = "loop"
    /\ pg.page < max_pages
    /\ pg' = [pg EXCEPT !.pc = "request", !.page = @ + 1]
    /\ rr' = RRCall
    /\ UNCHANGED <<now, oauth_token, token_expires_at, env, data, pl, stack, ret, run, obs>>

\* line 646 false: max_pages reached, line 726
PageLimit ==
    /\ pg.pc = "loop"
    /\ pg.page >= max_pages
    /\ pg' = [pg EXCEPT !.pc = "done"]
    /\ UNCHANGED <<now, oauth_token, token_expires_at, env, rr, data, pl, stack, ret, run, obs>>

\* lines 685-713: the page's hits are taken
PageTakenUntilEmpty ==
    /\ pg.pc = "request"
    /\ rr.pc = "returned"
    /\ LET hits == HitsInPage(pg.total, pg.offset) IN
        /\ IF hits = 0
           THEN /\ pg' = [pg EXCEPT !.pc = "done"]
                /\ now' = now
           ELSE /\ pg' = [pg EXCEPT !.pc = "loop", !.ndata = @ + hits,
                                    !.offset = @ + hits]
                /\ now' = Slept(1)
        /\ obs' = NoteHits(hits)
    /\ rr' = RRIdle
    /\ UNCHANGED <<oauth_token, token_expires_at, env, data, pl, stack, ret, run>>
PageTaken ==
    /\ pg.pc = "request"
    /\ rr.pc = "returned"
    /\ LET hits == HitsInPage(pg.total, pg.offset) IN
        /\ IF hits = 0
           THEN /\ pg' = [pg EXCEPT !.pc = "done"]
                /\ now' = now
           ELSE IF hits < page_size
           THEN /\ pg' = [pg EXCEPT !.pc = "done", !.ndata = @ + hits]
                /\ now' = now
           ELSE /\ pg' = [pg EXCEPT !.pc = "loop", !.ndata = @ + hits,
                                    !.offset = @ + hits]
                /\ now' = Slept(1)
        /\ obs' = NoteHits(hits)
    /\ rr' = RRIdle
    /\ UNCHANGED <<oauth_token, token_expires_at, env, data, pl, stack, ret, run>>

\* lines 715-720: EntityTooLarge is handed to handle_response_too_large_error
PageTooLarge ==
    /\ pg.pc = "request"
    /\ rr.pc = "etl"
    /\ pg' = [pg EXCEPT !.pc = "etl"]
    /\ UNCHANGED <<now, oauth_token, token_expires_at, env, rr, data, pl, stack, ret, run, obs>>

\* lines 722-724: any other exception is re-raised
PageRaise ==
    /\ pg.pc = "request"
    /\ rr.pc = "raised"
    /\ pg' = [pg EXCEPT !.pc = "raised", !.exc = rr.exc]
    /\ UNCHANGED <<now, oauth_token, token_expires_at, env, rr, data, pl, stack, ret, run, obs>>

(***************************************************************************)
(* The upstream's records: data[t] records have last_modified = t.         *)
(***************************************************************************)
\* the instants at which the upstream may hold a burst of records
BurstTicks == {0, 1, HourTicks, 3 * HourTicks, DayTicks, DayTicks + 1}
\* the number of records of a burst
BurstSizes == {800, max_records_per_period, 1600, 2100}

NoData == [t \in BurstTicks |-> 0]

DataSets ==
    {d \in [BurstTicks -> BurstSizes \cup {0}] :
        Cardinality({t \in BurstTicks : d[t] # 0}) <= MaxBursts}

RECURSIVE SumOver(_, _)
SumOver(d, S) ==
    IF S = {} THEN 0
    ELSE LET t == CHOOSE x \in S : TRUE IN d[t] + SumOver(d, S \ {t})

\* the records of the half-open window [a, b): the server's total for it
Count(a, b) == SumOver(data, {t \in BurstTicks : a <= t /\ t < b})

(***************************************************************************)
(* get_estimated_count, find_optimal_period_end, find_optimal_period_by_hour*)
(***************************************************************************)
\* int(x / 3600): truncation towards zero
TruncDiv(a, b) == IF a >= 0 THEN a \div b ELSE 0 - ((0 - a) \div b)

\* lines 287, 352: estimated_count <= target_max_records
AcceptsInverted(estimated_count, target) == estimated_count >= target
AcceptsStrict(estimated_count, target) == estimated_count < target
Accepts(estimated_count, target) == estimated_count <= target

\* line 257: one_day_count and one_day_count > target_max_records
NeedsHourGrain(one_day_count, target) ==
    one_day_count # Absent /\ one_day_count # 0 /\ one_day_count > target

PLIdle ==
    [pc |-> "idle", start_date |-> 0, max_end_date |-> 0, target |-> 0,
     hour_max |-> 0, grain |-> "none", left |-> 0, right |-> 0,
     optimal_end |-> 0, result |-> 0, nprobes |-> 0, first |-> 0,
     stable |-> TRUE, accepted |-> 0, exc |-> ""]

\* a call find_optimal_period_end(endpoint, start, max_end, target)
PLCall(start, max_end, target) ==
    [PLIdle EXCEPT !.pc = "start", !.start_date = start,
                   !.max_end_date = max_end, !.target = target]

\* counts an unstable upstream may report
ProbeCounts == {0, max_records_per_period, max_records_per_period + 1}

\* What get_estimated_count(from, to) may return (lines 197-221): the
\* server's total, None on a failure, or a count that is not the stable total.
ProbeOutcomes(from, to) ==
    {Count(from, to)}
        \cup (IF env.absents > 0 THEN {Absent} ELSE {})
        \cup (IF env.arbitrary THEN ProbeCounts ELSE {})

\* lines 180-182: the probe takes the bearer from get_oauth_token
ProbeToken ==
    IF env.oauth /\ ~TokenValid
    THEN \E expires_in \in ExpiresInSet :
            /\ oauth_token' = oauth_token + 1
            /\ token_expires_at' = ExpiresAt(expires_in)
    ELSE UNCHANGED <<oauth_token, token_expires_at>>

\* the bookkeeping of one probe that returned `o` for the window [from, to)
Probed(p, o, from, to) ==
    [p EXCEPT !.nprobes = @ + 1,
              !.first = IF p.nprobes = 0 THEN o ELSE @,
              !.stable = @ /\ o = Count(from, to)]

EnvAfterProbe(o) ==
    [env EXCEPT !.absents = IF o = Absent THEN @ - 1 ELSE @]

\* lines 250-268 and 330-333: the one-day probe chooses the grain
PlanFirstProbe ==
    /\ pl.pc = "start"
    /\ LET one_day_end == Min(pl.start_date + DayTicks, pl.max_end_date) IN
       \E o \in ProbeOutcomes(pl.start_date, one_day_end) :
        /\ env' = EnvAfterProbe(o)
        /\ obs' = NoteProbe(o)
        /\ LET p == Probed(pl, o, pl.start_date, one_day_end) IN
           IF NeedsHourGrain(o, pl.target)
           THEN pl' = [p EXCEPT !.pc = "hour", !.grain = "hour",
                                !.hour_max = one_day_end,
                                !.left = 1,
                                !.right = TruncDiv(one_day_end - pl.start_date, HourTicks),
                                !.optimal_end = pl.start_date + HourTicks]
           ELSE pl' = [p EXCEPT !.pc = "day", !.grain = "day",
                                !.left = 1,
                                !.right = ((pl.max_end_date - pl.start_date) \div DayTicks) + 1,
                                !.optimal_end = pl.start_date + DayTicks]
    /\ ProbeToken
    /\ UNCHANGED <<now, pg, rr, data, stack, ret, run>>

\* lines 213-215: the probe is answered 401 and get_estimated_count raises
PlanProbeUnauthorized ==
    /\ pl.pc \in {"start", "day", "hour"}
    /\ pl.pc \in {"day", "hour"} => pl.left <= pl.right
    /\ env.unauth > 0
    /\ env' = [env EXCEPT !.unauth = @ - 1]
    /\ pl' = [pl EXCEPT !.pc = "raised", !.nprobes = @ + 1, !.exc = "auth error 401"]
    /\ ProbeToken
    /\ UNCHANGED <<now, pg, rr, data, stack, ret, run>>
    /\ obs' = [NoteRequest EXCEPT !.unauth = TRUE, !.failed = TRUE]

\* One iteration of a bisection loop (lines 270-296, 335-361) of the planner
\* state `p` searching up to `limit` in steps of `unit` ticks, the probe
\* having returned `o`.
BisectAbsentAccepted(p, o, mid, test_end) ==
    IF o = Absent THEN [p EXCEPT !.optimal_end = test_end, !.left = mid + 1]
    ELSE IF Accepts(o, p.target)
    THEN [p EXCEPT !.optimal_end = test_end, !.left = mid + 1,
                   !.accepted = @ + 1]
    ELSE [p EXCEPT !.right = mid - 1]
Bisect(p, o, mid, test_end) ==
    IF o = Absent THEN [p EXCEPT !.right = mid - 1]
    ELSE IF Accepts(o, p.target)
    THEN [p EXCEPT !.optimal_end = test_end, !.left = mid + 1,
                   !.accepted = @ + 1]
    ELSE [p EXCEPT !.right = mid - 1]

\* lines 270-296: one probe of the day-grain bisection
PlanDayProbe ==
    /\ pl.pc = "day"
    /\ pl.left <= pl.right
    /\ LET mid_days == (pl.left + pl.right) \div 2
           test_end == Min(pl.start_date + mid_days * DayTicks, pl.max_end_date)
       IN \E o \in ProbeOutcomes(pl.start_date, test_end) :
            /\ env' = EnvAfterProbe(o)
            /\ obs' = NoteProbe(o)
            /\ pl' = Bisect(Probed(pl, o, pl.start_date, test_end), o, mid_days, test_end)
            /\ now' = IF o = Absent THEN now ELSE Slept(1)
    /\ ProbeToken
    /\ UNCHANGED <<pg, rr, data, stack, ret, run>>

\* lines 270, 298-302: the day-grain loop ends
PlanDayDone ==
    /\ pl.pc = "day"
    /\ pl.left > pl.right
    /\ pl' = [pl EXCEPT !.pc = "done", !.result = pl.optimal_end]
    /\ UNCHANGED <<now, oauth_token, token_expires_at, env, pg, rr, data, stack, ret, run, obs>>

\* lines 335-361: one probe of the hour-grain bisection
PlanHourProbe ==
    /\ pl.pc = "hour"
    /\ pl.left <= pl.right
    /\ LET mid_hours == (pl.left + pl.right) \div 2
           test_end == Min(pl.start_date + mid_hours * HourTicks, pl.hour_max)
       IN \E o \in ProbeOutcomes(pl.start_date, test_end) :
            /\ env' = EnvAfterProbe(o)
            /\ obs' = NoteProbe(o)
            /\ pl' = Bisect(Probed(pl, o, pl.start_date, test_end), o, mid_hours, test_end)
            /\ now' = IF o = Absent THEN now ELSE Slept(1)
    /\ ProbeToken
    /\ UNCHANGED <<pg, rr, data, stack, ret, run>>

\* lines 335, 363-367 and 259: the hour-grain loop ends
PlanHourDone ==
    /\ pl.pc = "hour"
    /\ pl.left > pl.right
    /\ pl' = [pl EXCEPT !.pc = "done", !.result = pl.optimal_end]
    /\ UNCHANGED <<now, oauth_token, token_expires_at, env, pg, rr, data, stack, ret, run, obs>>

(***************************************************************************)
(* fetch_data_from_api and handle_response_too_large_error: the calls in   *)
(* progress are the frames of `stack`, the innermost last.                 *)
(***************************************************************************)
\* a call of fetch_data_from_api ("fetch") or handle_response_too_large_error
\* ("handler") on the window [from, to]; use_adaptive_period is True in
\* every call the source makes
Frame(fn, from, to, rc) ==
    [fn |-> fn, from_date |-> from, to_date |-> to, pc |-> "enter",
     split |-> 0, all_data |-> <<>>, retry_count |-> rc]

Top == stack[Len(stack)]
Popped == SubSeq(stack, 1, Len(stack) - 1)
WithTop(f) == [stack EXCEPT ![Len(stack)] = f]
InFrame(fn, pc) == Len(stack) > 0 /\ Top.fn = fn /\ Top.pc = pc

\* The n first records (last_modified ascending) of the window [from, to):
\* what a finished pagination loop has accumulated.
Seg(from, to, n) == [from |-> from, to |-> to, n |-> n]
PageData(from, to, n) == IF n = 0 THEN <<>> ELSE <<Seg(from, to, n)>>

\* timedelta / 2 rounds to the nearest tick, halves to even
Half(d) ==
    IF d % 2 = 0 THEN d \div 2
    ELSE IF ((d - 1) \div 2) % 2 = 0 THEN (d - 1) \div 2 ELSE (d + 1) \div 2

\* line 504
handler_max_retries == 5

\* lines 599-606: the call of the planner
FetchPlan ==
    /\ InFrame("fetch", "enter")
    /\ pl' = PLCall(Top.from_date, Top.to_date, max_records_per_period)
    /\ stack' = WithTop([Top EXCEPT !.pc = "planning"])
    /\ UNCHANGED <<now, oauth_token, token_expires_at, env, pg, rr, data, ret, run, obs>>

\* lines 609-613: the planner's end is before to_date, the window is split
\* and the first part fetched
FetchSplitWholeAgain ==
    /\ InFrame("fetch", "planning")
    /\ pl.pc = "done"
    /\ pl.result < Top.to_date
    /\ stack' = Append(WithTop([Top EXCEPT !.pc = "first", !.split = pl.result]),
                       Frame("fetch", Top.from_date, Top.to_date, 0))
    /\ pl' = PLIdle
    /\ ret' = NoRet
    /\ UNCHANGED <<now, oauth_token, token_expires_at, env, pg, rr, data, run, obs>>
FetchSplit ==
    /\ InFrame("fetch", "planning")
    /\ pl.pc = "done"
    /\ pl.result < Top.to_date
    /\ stack' = Append(WithTop([Top EXCEPT !.pc = "first", !.split = pl.result]),
                       Frame("fetch", Top.from_date, pl.result, 0))
    /\ pl' = PLIdle
    /\ ret' = NoRet
    /\ UNCHANGED <<now, oauth_token, token_expires_at, env, pg, rr, data, run, obs>>

\* lines 609, 625-638: the window is accepted, to_date = optimal_end, and the
\* pagination section is entered
FetchAccept ==
    /\ InFrame("fetch", "planning")
    /\ pl.pc = "done"
    /\ ~(pl.result < Top.to_date)
    /\ stack' = WithTop([Top EXCEPT !.pc = "paginate", !.to_date = pl.result])
    /\ pg' = PGCall(Count(Top.from_date, pl.result))
    /\ pl' = PLIdle
    /\ UNCHANGED <<now, oauth_token, token_expires_at, env, rr, data, ret, run, obs>>

\* the planner's probe raised (401): the exception leaves fetch_data_from_api
FetchPlanRaised ==
    /\ InFrame("fetch", "planning")
    /\ pl.pc = "raised"
    /\ stack' = Popped
    /\ ret' = Raised(pl.exc)
    /\ pl' = PLIdle
    /\ UNCHANGED <<now, oauth_token, token_expires_at, env, pg, rr, data, run, obs>>

\* lines 614-619: the first part is back, the second part is fetched
FetchSecond ==
    /\ InFrame("fetch", "first")
    /\ ret.kind = "value"
    /\ stack' = Append(WithTop([Top EXCEPT !.pc = "second", !.all_data = @ \o ret.val]),
                       Frame("fetch", Top.split, Top.to_date, 0))
    /\ ret' = NoRet
    /\ UNCHANGED <<now, oauth_token, token_expires_at, env, pg, rr, data, pl, run, obs>>

\* lines 620-622: both parts are back
FetchJoined ==
    /\ InFrame("fetch", "second")
    /\ ret.kind = "value"
    /\ stack' = Popped
    /\ ret' = Returned(Top.all_data \o ret.val)
    /\ UNCHANGED <<now, oauth_token, token_expires_at, env, pg, rr, data, pl, run, obs>>

\* an exception of a recursive call leaves fetch_data_from_api (no handler
\* around lines 611 and 617)
FetchUnwind ==
    /\ Len(stack) > 0
    /\ Top.fn = "fetch"
    /\ Top.pc \in {"first", "second"}
    /\ ret.kind = "exc"
    /\ stack' = Popped
    /\ UNCHANGED <<now, oauth_token, token_expires_at, env, pg, rr, data, pl, ret, run, obs>>

\* line 726: the pagination loop is over
FetchPaginated ==
    /\ InFrame("fetch", "paginate")
    /\ pg.pc = "done"
    /\ stack' = Popped
    /\ ret' = Returned(PageData(Top.from_date, Top.to_date, pg.ndata))
    /\ pg' = PGIdle
    /\ UNCHANGED <<now, oauth_token, token_expires_at, env, rr, data, pl, run, obs>>

\* lines 715-720: return self.handle_response_too_large_error(endpoint,
\* from_date, to_date, params), retry_count left at its default 0; the
\* pages read so far stay behind in the local all_data
FetchTooLarge ==
    /\ InFrame("fetch", "paginate")
    /\ pg.pc = "etl"
    /\ stack' = Append(WithTop([Top EXCEPT !.pc = "handling",
                                           !.all_data = PageData(Top.from_date, Top.to_date, pg.ndata)]),
                       Frame("handler", Top.from_date, Top.to_date, 0))
    /\ pg' = PGIdle
    /\ rr' = RRIdle
    /\ ret' = NoRet
    /\ UNCHANGED <<now, oauth_token, token_expires_at, env, data, pl, run, obs>>

\* lines 722-724 (and 156-158): the exception leaves fetch_data_from_api
FetchPageRaised ==
    /\ InFrame("fetch", "paginate")
    /\ pg.pc = "raised"
    /\ stack' = Popped
    /\ ret' = Raised(pg.exc)
    /\ pg' = PGIdle
    /\ rr' = RRIdle
    /\ UNCHANGED <<now, oauth_token, token_expires_at, env, data, pl, run, obs>>

\* line 718: the handler's list is returned as it is
FetchHandledKeepsPages ==
    /\ InFrame("fetch", "handling")
    /\ ret.kind = "value"
    /\ stack' = Popped
    /\ ret' = Returned(Top.all_data \o ret.val)
    /\ UNCHANGED <<now, oauth_token, token_expires_at, env, pg, rr, data, pl, run, obs>>
FetchHandled ==
    /\ InFrame("fetch", "handling")
    /\ ret.kind = "value"
    /\ stack' = Popped
    /\ UNCHANGED <<now, oauth_token, token_expires_at, env, pg, rr, data, pl, ret, run, obs>>

\* lines 504-542: with the retry budget used up, []; otherwise the window
\* is halved and the first half fetched
HandlerFirst ==
    /\ InFrame("handler", "enter")
    /\ IF Top.retry_count >= handler_max_retries
       THEN /\ stack' = Popped
            /\ ret' = Returned(<<>>)
       ELSE /\ LET mid_date == Top.from_date + Half(Top.to_date - Top.from_date) IN
               stack' = Append(WithTop([Top EXCEPT !.pc = "first", !.split = mid_date]),
                               Frame("fetch", Top.from_date, mid_date, 0))
            /\ ret' = NoRet
    /\ UNCHANGED <<now, oauth_token, token_expires_at, env, pg, rr, data, pl, run, obs>>

\* lines 543-556: the first half is back; time.sleep(2); the second half
HandlerSecond ==
    /\ InFrame("handler", "first")
    /\ ret.kind = "value"
    /\ stack' = Append(WithTop([Top EXCEPT !.pc = "second", !.all_data = @ \o ret.val]),
                       Frame("fetch", Top.split, Top.to_date, 0))
    /\ ret' = NoRet
    /\ now' = Slept(4)
    /\ UNCHANGED <<oauth_token, token_expires_at, env, pg, rr, data, pl, run, obs>>

\* lines 557-576: both halves are back
HandlerJoined ==
    /\ InFrame("handler", "second")
    /\ ret.kind = "value"
    /\ stack' = Popped
    /\ ret' = Returned(Top.all_data \o ret.val)
    /\ UNCHANGED <<now, oauth_token, token_expires_at, env, pg, rr, data, pl, run, obs>>

\* lines 564-571: except Exception, the same window is handled again with
\* retry_count + 1
HandlerRetry ==
    /\ Len(stack) > 0
    /\ Top.fn = "handler"
    /\ Top.pc \in {"first", "second"}
    /\ ret.kind = "exc"
    /\ Top.retry_count < handler_max_retries - 1
    /\ stack' = Append(WithTop([Top EXCEPT !.pc = "retrying"]),
                       Frame("handler", Top.from_date, Top.to_date, Top.retry_count + 1))
    /\ ret' = NoRet
    /\ UNCHANGED <<now, oauth_token, token_expires_at, env, pg, rr, data, pl, run, obs>>

\* lines 572-574: except Exception with the budget used up, []
HandlerDropKeepsFirstHalf ==
    /\ Len(stack) > 0
    /\ Top.fn = "handler"
    /\ Top.pc \in {"first", "second"}
    /\ ret.kind = "exc"
    /\ ~(Top.retry_count < handler_max_retries - 1)
    /\ stack' = Popped
    /\ ret' = Returned(Top.all_data)
    /\ UNCHANGED <<now, oauth_token, token_expires_at, env, pg, rr, data, pl, run, obs>>
HandlerDropPropagates ==
    /\ Len(stack) > 0
    /\ Top.fn = "handler"
    /\ Top.pc \in {"first", "second"}
    /\ ret.kind = "exc"
    /\ ~(Top.retry_count < handler_max_retries - 1)
    /\ stack' = Popped
    /\ UNCHANGED <<now, oauth_token, token_expires_at, env, pg, rr, data, pl, ret, run, obs>>
HandlerDrop ==
    /\ Len(stack) > 0
    /\ Top.fn = "handler"
    /\ Top.pc \in {"first", "second"}
    /\ ret.kind = "exc"
    /\ ~(Top.retry_count < handler_max_retries - 1)
    /\ stack' = Popped
    /\ ret' = Returned(<<>>)
    /\ UNCHANGED <<now, oauth_token, token_expires_at, env, pg, rr, data, pl, run, obs>>

\* line 569: the retried call's list is returned as it is
HandlerRetried ==
    /\ InFrame("handler", "retrying")
    /\ ret.kind = "value"
    /\ stack' = Popped
    /\ UNCHANGED <<now, oauth_token, token_expires_at, env, pg, rr, data, pl, ret, run, obs>>

(***************************************************************************)
(* run_pipeline                                                            *)
(***************************************************************************)
RECURSIVE TotalOf(_)
\* len() of a list of records given by its segments
TotalOf(segs) == IF segs = <<>> THEN 0 ELSE Head(segs).n + TotalOf(Tail(segs))

\* a call run_pipeline(endpoint, from_date=from, to_date=to) on a pipeline
\* whose batch_size attribute is bs
RunCall(from, to, bs) ==
    [RunIdle EXCEPT !.pc = "start", !.fetch_from = from, !.fetch_to = to,
                    !.batch_size = bs]

\* lines 999-1002
RunFetch ==
    /\ run.pc = "start"
    /\ stack' = <<Frame("fetch", run.fetch_from, run.fetch_to, 0)>>
    /\ run' = [run EXCEPT !.pc = "fetching"]
    /\ UNCHANGED <<now, oauth_token, token_expires_at, env, pg, rr, data, pl, ret, obs>>

\* lines 1004-1010: no record, the summary of an empty run
RunNoData ==
    /\ run.pc = "fetching"
    /\ stack = <<>>
    /\ ret.kind = "value"
    /\ ret.val = <<>>
    /\ run' = [run EXCEPT !.pc = "done", !.status = "success",
                          !.records_processed = 0, !.fetched = "value",
                          !.summaries = @ + 1]
    /\ UNCHANGED <<now, oauth_token, token_expires_at, env, pg, rr, data, pl, stack, ret, obs>>

\* lines 1012-1015
RunBatchStart ==
    /\ run.pc = "fetching"
    /\ stack = <<>>
    /\ ret.kind = "value"
    /\ ret.val # <<>>
    /\ run' = [run EXCEPT !.pc = "batching", !.raw_data = ret.val,
                          !.remaining = TotalOf(ret.val), !.fetched = "value"]
    /\ UNCHANGED <<now, oauth_token, token_expires_at, env, pg, rr, data, pl, stack, ret, obs>>

\* an exception that leaves run_pipeline instead of becoming a summary
RunFetchPropagates ==
    /\ run.pc = "fetching"
    /\ stack = <<>>
    /\ ret.kind = "exc"
    /\ run' = [run EXCEPT !.pc = "propagated", !.fetched = "exc"]
    /\ UNCHANGED <<now, oauth_token, token_expires_at, env, pg, rr, data, pl, stack, ret, obs>>

\* lines 1056-1062: the exception of the fetch becomes the error summary,
\* which has no records_processed key
RunFetchFailed ==
    /\ run.pc = "fetching"
    /\ stack = <<>>
    /\ ret.kind = "exc"
    /\ run' = [run EXCEPT !.pc = "done", !.status = "error", !.error = ret.exc,
                          !.fetched = "exc", !.summaries = @ + 1]
    /\ UNCHANGED <<now, oauth_token, token_expires_at, env, pg, rr, data, pl, stack, ret, obs>>

\* line 1021: len(batch_data) >= self.batch_size
BatchFull(n, batch_size) == n >= batch_size

\* lines 1017-1021: records are appended one by one until the batch is full
\* or the list is exhausted; the appends up to the next flush are one step
RunAppend ==
    /\ run.pc = "batching"
    /\ run.remaining > 0
    /\ ~BatchFull(run.batch_data, run.batch_size)
    /\ LET k == Min(Max(run.batch_size - run.batch_data, 1), run.remaining) IN
       run' = [run EXCEPT !.batch_data = @ + k, !.remaining = @ - k,
                          !.last_op = "append"]
    /\ UNCHANGED <<now, oauth_token, token_expires_at, env, pg, rr, data, pl, stack, ret, obs>>

\* line 832: upload_batch_to_bigquery returns len(batch_data)
UploadedOneLess(n) == n - 1
Uploaded(n) == n

\* a full batch uploaded without line 1029, batch_data.clear()
RunUploadFullKeepsBuffer ==
    /\ run.pc = "batching"
    /\ BatchFull(run.batch_data, run.batch_size)
    /\ run' = [run EXCEPT !.batch_count = @ + 1,
                          !.total_processed = @ + Uploaded(run.batch_data),
                          !.last_op = "flush_full",
                          !.flush_size = run.batch_data,
                          !.flushed = @ + run.batch_data]
    /\ obs' = NoteLoaded(run.batch_data)
    /\ UNCHANGED <<now, oauth_token, token_expires_at, env, pg, rr, data, pl, stack, ret>>

\* lines 1021-1029: a full batch is uploaded and the buffer cleared
RunUploadFull ==
    /\ run.pc = "batching"
    /\ BatchFull(run.batch_data, run.batch_size)
    /\ run' = [run EXCEPT !.batch_count = @ + 1,
                          !.total_processed = @ + Uploaded(run.batch_data),
                          !.batch_data = 0,
                          !.last_op = "flush_full",
                          !.flush_size = run.batch_data,
                          !.flushed = @ + run.batch_data]
    /\ obs' = NoteLoaded(run.batch_data)
    /\ UNCHANGED <<now, oauth_token, token_expires_at, env, pg, rr, data, pl, stack, ret>>

\* lines 1036-1054: the rest is uploaded (the buffer is not cleared) and the
\* summary built
RunUploadRest ==
    /\ run.pc = "batching"
    /\ run.remaining = 0
    /\ 0 < run.batch_data
    /\ ~BatchFull(run.batch_data, run.batch_size)
    /\ run' = [run EXCEPT !.pc = "done", !.batch_count = @ + 1,
                          !.total_processed = @ + Uploaded(run.batch_data),
                          !.status = "success",
                          !.records_processed =
                               run.total_processed + Uploaded(run.batch_data),
                          !.last_op = "flush_rest",
                          !.flush_size = run.batch_data,
                          !.flushed = @ + run.batch_data,
                          !.summaries = @ + 1]
    /\ obs' = NoteLoaded(run.batch_data)
    /\ UNCHANGED <<now, oauth_token, token_expires_at, env, pg, rr, data, pl, stack, ret>>

\* lines 1036, 1045-1054: nothing is left, the summary is built
RunFinish ==
    /\ run.pc = "batching"
    /\ run.remaining = 0
    /\ run.batch_data = 0
    /\ run' = [run EXCEPT !.pc = "done", !.status = "success",
                          !.records_processed = run.total_processed,
                          !.summaries = @ + 1]
    /\ UNCHANGED <<now, oauth_token, token_expires_at, env, pg, rr, data, pl, stack, ret, obs>>

\* a failed load job after which the loop goes on with the next batch
RunUploadFailedGoesOn ==
    /\ run.pc = "batching"
    /\ \/ BatchFull(run.batch_data, run.batch_size)
       \/ run.remaining = 0 /\ run.batch_data > 0
    /\ env.loadfaults > 0
    /\ env' = [env EXCEPT !.loadfaults = @ - 1]
    /\ run' = [run EXCEPT !.batch_count = @ + 1, !.batch_data = 0,
                          !.last_op = "flush_failed",
                          !.flush_size = run.batch_data]
    /\ obs' = NoteLoadFailed
    /\ UNCHANGED <<now, oauth_token, token_expires_at, pg, rr, data, pl, stack, ret>>

\* lines 834-836 and 1056-1062: the load job raises GoogleCloudError, which
\* becomes the error summary; nothing is undone
RunUploadFailed ==
    /\ run.pc = "batching"
    /\ \/ BatchFull(run.batch_data, run.batch_size)
       \/ run.remaining = 0 /\ run.batch_data > 0
    /\ env.loadfaults > 0
    /\ env' = [env EXCEPT !.loadfaults = @ - 1]
    /\ run' = [run EXCEPT !.pc = "done", !.batch_count = @ + 1,
                          !.status = "error", !.error = "GoogleCloudError",
                          !.last_op = "flush_failed",
                          !.flush_size = run.batch_data,
                          !.summaries = @ + 1]
    /\ obs' = NoteLoadFailed
    /\ UNCHANGED <<now, oauth_token, token_expires_at, pg, rr, data, pl, stack, ret>>

(***************************************************************************)
(* Spec: one run of run_pipeline over an explicit window, on a pipeline    *)
(* configured with a static API key.                                       *)
(***************************************************************************)
\* the windows (from, to) of the run
RunWindows ==
    {<<0, 1>>, <<0, HourTicks>>, <<1, 3 * HourTicks>>, <<0, DayTicks>>,
     <<0, DayTicks + HourTicks>>}
\* the batch_size attribute: the default of __init__ and a smaller setting
BatchSizes == {1000, 100000}
\* the failures a page request may be answered with in a run
RunAnswers == {Http(500, TRUE), Http(401, FALSE), Http(403, FALSE)}
\* the failures of a run: one of each kind (RunEnvs); EntityTooLarge again
\* and again, or EntityTooLarge once and then refusals (HardRunEnvs)
RunEnv(faults, absents, unauth, loadfaults, etl) ==
    [timed |-> FALSE, oauth |-> FALSE, faults |-> faults, answers |-> RunAnswers,
     arbitrary |-> FALSE, absents |-> absents, unauth |-> unauth,
     loadfaults |-> loadfaults, etl |-> etl]
RunEnvs == {RunEnv(0, MaxRunAbsents, 1, 1, 1)}
HardRunEnvs ==
    {RunEnv(0, 0, 0, 0, MaxRunTooLarge), RunEnv(MaxRunFaults, 0, 0, 0, 1)}

\* the upstream's records with the bursts `b` (instant :> size) only
WithBursts(b) == [t \in BurstTicks |-> IF t \in DOMAIN b THEN b[t] ELSE 0]
\* the upstream's records of a run: none; few; more than the ceiling within
\* a day, within an hour, within both halves of an hour; more than max_pages
\* pages within an hour; two days
RunData ==
    {NoData,
     WithBursts(0 :> 30),
     WithBursts(1 :> 30 @@ HourTicks :> 1600),
     WithBursts(0 :> 1600),
     WithBursts(0 :> 1600 @@ 1 :> 30),
     WithBursts(1 :> 2100),
     WithBursts(0 :> 800 @@ DayTicks :> 800)}
SmallRunData == {NoData, WithBursts(0 :> 30)}
\* the failures and the records of a run
RunUpstreams == (RunEnvs \X RunData) \cup (HardRunEnvs \X SmallRunData)

Init ==
    /\ now = 0
    /\ oauth_token = 0
    /\ token_expires_at = 0
    /\ \E u \in RunUpstreams : env = u[1] /\ data = u[2]
    /\ pg = PGIdle
    /\ rr = RRIdle
    /\ pl = PLIdle
    /\ stack = <<>>
    /\ ret = NoRet
    /\ \E w \in RunWindows, bs \in BatchSizes : run = RunCall(w[1], w[2], bs)
    /\ obs = ObsInit

Next ==
    \/ RunFetch
    \/ RunNoData
    \/ RunBatchStart
    \/ RunFetchFailed
    \/ RunAppend
    \/ RunUploadFull
    \/ RunUploadRest
    \/ RunFinish
    \/ RunUploadFailed
    \/ FetchPlan
    \/ FetchSplit
    \/ FetchAccept
    \/ FetchPlanRaised
    \/ FetchSecond
    \/ FetchJoined
    \/ FetchUnwind
    \/ FetchPaginated
    \/ FetchTooLarge
    \/ FetchPageRaised
    \/ FetchHandled
    \/ HandlerFirst
    \/ HandlerSecond
    \/ HandlerJoined
    \/ HandlerRetry
    \/ HandlerDrop
    \/ HandlerRetried
    \/ PlanFirstProbe
    \/ PlanProbeUnauthorized
    \/ PlanDayProbe
    \/ PlanDayDone
    \/ PlanHourProbe
    \/ PlanHourDone
    \/ AuthNone
    \/ PageBegin
    \/ PageLimit
    \/ SendRequest
    \/ Respond
    \/ PageTaken
    \/ PageTooLarge
    \/ PageRaise

Spec == Init /\ [][Next]_vars

(***************************************************************************)
(* SpecSplit: three calls of fetch_data_from_api on the same stable        *)
(* upstream, none of whose requests fails: the window [from, to), then     *)
(* [from, mid) and [mid, to).                                              *)
(***************************************************************************)
\* the calls fetch_data_from_api(endpoint, from, to), (from, mid), (mid, to)
SplitCall(from, mid, to) ==
    [RunIdle EXCEPT !.pc = "split_start", !.fetch_from = from, !.mid = mid,
                    !.fetch_to = to]

\* fetch_data_from_api(endpoint, from, to) is called
SplitWhole ==
    /\ run.pc = "split_start"
    /\ stack' = <<Frame("fetch", run.fetch_from, run.fetch_to, 0)>>
    /\ run' = [run EXCEPT !.pc = "whole"]
    /\ UNCHANGED <<now, oauth_token, token_expires_at, env, pg, rr, data, pl, ret, obs>>

\* it has returned; fetch_data_from_api(endpoint, from, mid) is called
SplitLeft ==
    /\ run.pc = "whole"
    /\ stack = <<>>
    /\ ret.kind = "value"
    /\ stack' = <<Frame("fetch", run.fetch_from, run.mid, 0)>>
    /\ ret' = NoRet
    /\ run' = [run EXCEPT !.pc = "left", !.raw_data = ret.val]
    /\ UNCHANGED <<now, oauth_token, token_expires_at, env, pg, rr, data, pl, obs>>

\* it has returned; fetch_data_from_api(endpoint, mid, to) is called
SplitRight ==
    /\ run.pc = "left"
    /\ stack = <<>>
    /\ ret.kind = "value"
    /\ stack' = <<Frame("fetch", run.mid, run.fetch_to, 0)>>
    /\ ret' = NoRet
    /\ run' = [run EXCEPT !.pc = "right", !.left_data = ret.val]
    /\ UNCHANGED <<now, oauth_token, token_expires_at, env, pg, rr, data, pl, obs>>

\* the third call has returned
SplitDone ==
    /\ run.pc = "right"
    /\ stack = <<>>
    /\ ret.kind = "value"
    /\ run' = [run EXCEPT !.pc = "split_done", !.right_data = ret.val]
    /\ UNCHANGED <<now, oauth_token, token_expires_at, env, pg, rr, data, pl, stack, ret, obs>>

\* from < mid < to
SplitWindows ==
    {<<0, 1, HourTicks>>, <<0, HourTicks, 3 * HourTicks>>,
     <<1, HourTicks, DayTicks>>, <<0, DayTicks, DayTicks + HourTicks>>}

InitSplit ==
    /\ now = 0
    /\ oauth_token = 0
    /\ token_expires_at = 0
    /\ env = RunEnv(0, 0, 0, 0, 0)
    /\ pg = PGIdle
    /\ rr = RRIdle
    /\ data \in RunData
    /\ pl = PLIdle
    /\ stack = <<>>
    /\ ret = NoRet
    /\ \E w \in SplitWindows : run = SplitCall(w[1], w[2], w[3])
    /\ obs = ObsInit

NextSplit ==
    \/ SplitWhole
    \/ SplitLeft
    \/ SplitRight
    \/ SplitDone
    \/ FetchPlan
    \/ FetchSplit
    \/ FetchAccept
    \/ FetchSecond
    \/ FetchJoined
    \/ FetchPaginated
    \/ PlanFirstProbe
    \/ PlanDayProbe
    \/ PlanDayDone
    \/ PlanHourProbe
    \/ PlanHourDone
    \/ AuthNone
    \/ PageBegin
    \/ PageLimit
    \/ SendRequest
    \/ Respond
    \/ PageTaken

SpecSplit == InitSplit /\ [][NextSplit]_vars

(***************************************************************************)
(* SpecProbe: one call of get_estimated_count.  The call's state is kept   *)
(* in rr: its position, the response, the value returned (Absent for None) *)
(* or the exception raised.                                                *)
(***************************************************************************)
ProbeIdle == [pc |-> "idle", last |-> NoResp, count |-> Absent, exc |-> ""]

\* the totals and the numbers of data items (limit = 1) of a response body
ProbeTotals == {0, max_records_per_period, max_records_per_period + 1}
ProbeDataLens == {0, 1}

\* the answers to the request of line 198: an HTTP status with a JSON body
\* that has a total or not, a body that is no JSON, a timeout, a connection
\* error
ProbeResponses ==
    [kind : {"http"}, status : Statuses, too_large : {FALSE},
     has_total : BOOLEAN, total : ProbeTotals, ndata : ProbeDataLens]
        \cup {[kind |-> k, status |-> 0, too_large |-> FALSE, has_total |-> FALSE,
               total |-> 0, ndata |-> 0] : k \in {"timeout", "connerr", "badjson"}}

\* lines 197-221: what the call makes of the response
EstimatedCount(resp) ==
    IF resp.kind # "http" THEN [pc |-> "returned", count |-> Absent, exc |-> ""]
    ELSE IF 400 <= resp.status /\ resp.status < 600
    THEN IF resp.status = 401
         THEN [pc |-> "raised", count |-> Absent, exc |-> "auth error 401"]
         ELSE [pc |-> "returned", count |-> Absent, exc |-> ""]
    ELSE [pc |-> "returned", exc |-> "",
          count |-> IF resp.has_total THEN resp.total ELSE resp.ndata]

\* lines 180-184: the headers, with the bearer of get_oauth_token if OAuth
\* is configured
ProbeAuth ==
    /\ rr.pc = "call"
    /\ ProbeToken
    /\ rr' = [rr EXCEPT !.pc = "send"]
    /\ UNCHANGED <<now, env, pg, data, pl, stack, ret, run, obs>>

\* lines 181 and 156-158: the token endpoint answers with an HTTP error and
\* get_oauth_token raises, outside the try of line 197
ProbeAuthFail ==
    /\ rr.pc = "call"
    /\ env.oauth
    /\ ~TokenValid
    /\ rr' = [rr EXCEPT !.pc = "raised", !.exc = "OAuth token acquisition failed"]
    /\ obs' = NoteFailed
    /\ UNCHANGED <<now, oauth_token, token_expires_at, env, pg, data, pl, stack, ret, run>>

\* line 198: the request goes out
ProbeSend ==
    /\ rr.pc = "send"
    /\ rr' = [rr EXCEPT !.pc = "await"]
    /\ obs' = NoteRequest
    /\ UNCHANGED <<now, oauth_token, token_expires_at, env, pg, data, pl, stack, ret, run>>

\* lines 199-221: the response arrives
ProbeAnswer ==
    /\ rr.pc = "await"
    /\ \E resp \in ProbeResponses :
        LET out == EstimatedCount(resp) IN
        rr' = [rr EXCEPT !.pc = out.pc, !.count = out.count, !.exc = out.exc,
                         !.last = resp]
    /\ UNCHANGED <<now, oauth_token, token_expires_at, env, pg, data, pl, stack, ret, run, obs>>

InitProbe ==
    /\ now = 0
    /\ \/ oauth_token = 0 /\ token_expires_at = 0
       \/ oauth_token = 1 /\ token_expires_at \in -1..MaxCachedLimit
    /\ \E o \in BOOLEAN :
         env = [RunEnv(0, 0, 0, 0, 0) EXCEPT !.oauth = o, !.timed = TRUE]
    /\ pg = PGIdle
    /\ rr = [ProbeIdle EXCEPT !.pc = "call"]
    /\ data = NoData
    /\ pl = PLIdle
    /\ stack = <<>>
    /\ ret = NoRet
    /\ run = RunIdle
    /\ obs = ObsInit

NextProbe ==
    \/ ProbeAuth
    \/ ProbeAuthFail
    \/ ProbeSend
    \/ ProbeAnswer

SpecProbe == InitProbe /\ [][NextProbe]_vars

(***************************************************************************)
(* SpecTerm: one call of fetch_data_from_api with adaptive splitting, no   *)
(* page request failing.  On windows of a few hours every probe returns    *)
(* any count or nothing; on windows of more than a day the probes return   *)
(* the stable total or, MaxTermAbsents times, nothing.  The program is     *)
(* sequential and takes its next step whenever it has one.                 *)
(***************************************************************************)
ShortTermWindows ==
    {<<0, 1>>, <<0, HourTicks>>, <<1, 3 * HourTicks>>, <<0, 4 * HourTicks>>}
LongTermWindows ==
    {<<0, DayTicks + HourTicks>>, <<1, 2 * DayTicks + 1>>}
TermData ==
    {NoData, WithBursts(0 :> 30), WithBursts(1 :> 1600 @@ HourTicks :> 30),
     WithBursts(1 :> 2100), WithBursts(0 :> 800 @@ DayTicks :> 800)}
TermCases ==
    ({[RunEnv(0, MaxTermAbsents, 0, 0, 0) EXCEPT !.arbitrary = TRUE]} \X ShortTermWindows)
        \cup ({RunEnv(0, MaxTermAbsents, 0, 0, 0)} \X LongTermWindows)

InitTerm ==
    /\ now = 0
    /\ oauth_token = 0
    /\ token_expires_at = 0
    /\ \E c \in TermCases :
          /\ env = c[1]
          /\ stack = <<Frame("fetch", c[2][1], c[2][2], 0)>>
    /\ pg = PGIdle
    /\ rr = RRIdle
    /\ data \in TermData
    /\ pl = PLIdle
    /\ ret = NoRet
    /\ run = RunIdle
    /\ obs = ObsInit

NextTerm ==
    \/ FetchPlan
    \/ FetchSplit
    \/ FetchAccept
    \/ FetchSecond
    \/ FetchJoined
    \/ FetchPaginated
    \/ PlanFirstProbe
    \/ PlanDayProbe
    \/ PlanDayDone
    \/ PlanHourProbe
    \/ PlanHourDone
    \/ AuthNone
    \/ PageBegin
    \/ PageLimit
    \/ SendRequest
    \/ Respond
    \/ PageTaken

SpecTerm == InitTerm /\ [][NextTerm]_vars /\ WF_vars(NextTerm)

(***************************************************************************)
(* SpecMap: one call of upload_batch_to_bigquery, the loader run_pipeline  *)
(* uses.  A key is a sequence of characters, a record the sequence of its  *)
(* (key, value) items in dict order; env holds the pipeline's              *)
(* column_mapping, data the batch, rr the call's position and its          *)
(* processed_data, obs.warehouse the rows of the destination table (their  *)
(* type conversions of lines 785-798 change values, never the columns, and *)
(* are left out), ret what the call returns.                               *)
(***************************************************************************)
KeyChars == {"a", "B"}
IsUpper(c) == c \in {"B", "X"}
LowerOf(c) == IF c = "B" THEN "b" ELSE IF c = "X" THEN "x" ELSE c

RECURSIVE Underscored(_, _)
\* re.sub(r'(?<!^)(?=[A-Z])', '_', key) from position i on: an underscore at
\* every position that is not the start and is followed by an uppercase
\* letter
Underscored(key, i) ==
    IF i > Len(key) THEN <<>>
    ELSE (IF i > 1 /\ IsUpper(key[i]) THEN <<"_", key[i]>> ELSE <<key[i]>>)
            \o Underscored(key, i + 1)

\* line 751: re.sub(...).lower()
SnakeCase(key) ==
    LET u == Underscored(key, 1) IN [i \in 1..Len(u) |-> LowerOf(u[i])]

\* line 753: mapped_record[mapped_key] = value, on a dict
DictSet(rec, k, v) ==
    IF \E j \in 1..Len(rec) : rec[j][1] = k
    THEN [j \in 1..Len(rec) |-> IF rec[j][1] = k THEN <<k, v>> ELSE rec[j]]
    ELSE Append(rec, <<k, v>>)

RECURSIVE MapItems(_, _, _)
\* lines 743-753: the items of a record from position i on, put into `acc`
MapItems(mapping, record, acc) ==
    IF record = <<>> THEN acc
    ELSE LET key == Head(record)[1]
             value == Head(record)[2]
             mapped_key == IF key \in DOMAIN mapping THEN mapping[key]
                           ELSE SnakeCase(key)
         IN MapItems(mapping, Tail(record), DictSet(acc, mapped_key, value))

\* lines 738-757
process_column_mapping(mapping, batch) ==
    IF DOMAIN mapping = {} THEN batch
    ELSE [r \in 1..Len(batch) |-> MapItems(mapping, batch[r], <<>>)]

UploadIdle == [pc |-> "call", processed_data |-> <<>>]

\* line 778
ApplyMapping ==
    /\ rr.pc = "call"
    /\ rr' = [pc |-> "mapped",
              processed_data |-> process_column_mapping(env.column_mapping, data)]
    /\ UNCHANGED <<now, oauth_token, token_expires_at, env, pg, data, pl, stack, ret, run, obs>>

\* lines 781-832: the frame built from processed_data is appended to the
\* table with its columns as they are, and the call returns len(batch_data)
LoadFrame ==
    /\ rr.pc = "mapped"
    /\ obs' = [obs EXCEPT !.warehouse = @ \o rr.processed_data]
    /\ rr' = [rr EXCEPT !.pc = "done"]
    /\ ret' = Returned(Len(data))
    /\ UNCHANGED <<now, oauth_token, token_expires_at, env, pg, data, pl, stack, run>>

\* lines 834-836: the load job fails and the error is raised again
LoadFrameFails ==
    /\ rr.pc = "mapped"
    /\ rr' = [rr EXCEPT !.pc = "done"]
    /\ ret' = Raised("GoogleCloudError")
    /\ UNCHANGED <<now, oauth_token, token_expires_at, env, pg, data, pl, stack, run, obs>>

\* the keys of the upstream's records
Keys == UNION {[1..n -> KeyChars] : n \in 1..MaxKeyLen}
\* the values of their fields
FieldValues == {1, 2}
\* the records: up to MaxFields items with different keys
Records ==
    {rec \in UNION {[1..n -> Keys \X FieldValues] : n \in 1..MaxFields} :
        \A i, j \in 1..Len(rec) : i # j => rec[i][1] # rec[j][1]}
\* the column_mapping of the configuration: empty (the default, line 87) or
\* naming some keys
Mappings ==
    UNION {[D -> {<<"x">>, <<"a", "_", "b">>}] :
              D \in SUBSET {<<"a", "B">>, <<"B">>}}

InitMap ==
    /\ now = 0
    /\ oauth_token = 0
    /\ token_expires_at = 0
    /\ \E m \in Mappings : env = [column_mapping |-> m]
    /\ pg = PGIdle
    /\ rr = UploadIdle
    /\ \E rec \in Records : data = <<rec>>
    /\ pl = PLIdle
    /\ stack = <<>>
    /\ ret = NoRet
    /\ run = RunIdle
    /\ obs = [ObsInit EXCEPT !.warehouse = <<>>]

NextMap ==
    \/ ApplyMapping
    \/ LoadFrame
    \/ LoadFrameFails

SpecMap == InitMap /\ [][NextMap]_vars

(***************************************************************************)
(* SpecPlan: one call of find_optimal_period_end, with every sequence of   *)
(* probe outcomes.                                                         *)
(***************************************************************************)
\* absent probes the upstream may give during one planner call: a call makes
\* at most six probes
MaxAbsents == 6

PlanStarts == {0, 1}
PlanEnds ==
    {0, 1, HourTicks, HourTicks + 1, 5 * HourTicks, DayTicks - 1, DayTicks,
     DayTicks + 1, 2 * DayTicks, 3 * DayTicks + 1}

InitPlan ==
    /\ now = 0
    /\ oauth_token = 0
    /\ token_expires_at = 0
    /\ env = [timed |-> FALSE, oauth |-> FALSE, faults |-> 0, answers |-> {},
              arbitrary |-> TRUE, absents |-> MaxAbsents, unauth |-> 1,
              loadfaults |-> 0, etl |-> 1]
    /\ pg = PGIdle
    /\ rr = RRIdle
    /\ stack = <<>>
    /\ ret = NoRet
    /\ run = RunIdle
    /\ obs = ObsInit
    /\ data \in DataSets
    /\ \E start \in PlanStarts, max_end \in PlanEnds :
          pl = PLCall(start, max_end, max_records_per_period)

NextPlan ==
    \/ PlanFirstProbe
    \/ PlanProbeUnauthorized
    \/ PlanDayProbe
    \/ PlanDayDone
    \/ PlanHourProbe
    \/ PlanHourDone

SpecPlan == InitPlan /\ [][NextPlan]_vars

(***************************************************************************)
(* SpecRetry: one pagination loop with its requests, the token cache and   *)
(* the clock.                                                              *)
(***************************************************************************)
\* record totals of the window being paginated
TotalSet == {0, 7, 20, 45, 2100}

InitRetry ==
    /\ now = 0
    /\ \/ oauth_token = 0 /\ token_expires_at = 0
       \/ oauth_token = 1 /\ token_expires_at \in (0 - 1)..MaxCachedLimit
    /\ \E o \in BOOLEAN :
          env = [timed |-> TRUE, oauth |-> o, faults |-> MaxFaults,
                 answers |-> Responses, arbitrary |-> FALSE, absents |-> 0,
                 unauth |-> 1, loadfaults |-> 0, etl |-> 1]
    /\ \E total \in TotalSet : pg = PGCall(total)
    /\ rr = RRIdle
    /\ data = NoData
    /\ pl = PLIdle
    /\ stack = <<>>
    /\ ret = NoRet
    /\ run = RunIdle
    /\ obs = ObsInit

NextRetry ==
    \/ AuthNone
    \/ AuthReuse
    \/ AuthRefresh
    \/ AuthFail
    \/ PageBegin
    \/ PageLimit
    \/ SendRequest
    \/ Respond
    \/ PageTaken
    \/ PageTooLarge
    \/ PageRaise

SpecRetry == InitRetry /\ [][NextRetry]_vars

(***************************************************************************)
(* Properties of a run (checked under Spec).                               *)
(***************************************************************************)
\* the records with last_modified = t among the seg.n first records (sorted
\* by last_modified ascending, line 653-656) of the window [seg.from, seg.to)
Taken(seg, t) ==
    IF t < seg.from \/ t >= seg.to THEN 0
    ELSE Min(data[t], Max(0, seg.n - Count(seg.from, t)))

RECURSIVE ReturnedAt(_, _)
\* the records with last_modified = t in a returned list
ReturnedAt(segs, t) ==
    IF segs = <<>> THEN 0 ELSE Taken(Head(segs), t) + ReturnedAt(Tail(segs), t)

\* fetch_data_from_api(endpoint, run.fetch_from, run.fetch_to) has returned
\* its list to run_pipeline
FetchReturned == run.pc = "fetching" /\ stack = <<>> /\ ret.kind = "value"

\* C1: with no failed probe or page request, the list returned for the
\* window [from, to) holds every upstream record of the window exactly once
\* and no other record.
C1_FetchReturnsExactRange ==
    (FetchReturned /\ ~obs.failed) =>
        \A t \in BurstTicks :
            ReturnedAt(ret.val, t) =
                (IF run.fetch_from <= t /\ t < run.fetch_to THEN data[t] ELSE 0)

\* the EntityTooLarge bisections in progress, each nested in the half of
\* the one before it
BisectionDepth ==
    Cardinality({i \in 1..Len(stack) :
                    stack[i].fn = "handler" /\ stack[i].pc \in {"first", "second"}})

\* C4: the bisections of handle_response_too_large_error are never nested
\* more than 5 deep.
C4_BisectionDepthAtMostFive == BisectionDepth <= 5

\* C5: once a probe or a page request has been answered 401, no request is
\* issued, no batch is loaded, and the run ends with status error.
C5_UnauthorizedAbortsRun ==
    obs.unauth =>
        /\ ~obs.late_request
        /\ ~obs.late_load
        /\ run.pc = "done" => run.status = "error"

\* C16: the windows whose pages make up the returned list follow each other
\* without overlap, each ending where or before the next begins, so that
\* the list is in last_modified ascending order.
C16_ReturnedWindowsAscending ==
    FetchReturned =>
        \A i, j \in 1..Len(ret.val) :
            i < j => ret.val[i].to <= ret.val[j].from

\* C17: over a stable upstream, the records returned for [from, to) are
\* those returned for [from, mid) together with those returned for
\* [mid, to), each as often (checked under SpecSplit).
C17_FetchSplitsAtAnyMid ==
    run.pc = "split_done" =>
        \A t \in BurstTicks :
            ReturnedAt(run.raw_data, t) =
                ReturnedAt(run.left_data, t) + ReturnedAt(run.right_data, t)

\* the frames of the bisections in progress
Bisecting ==
    {i \in 1..Len(stack) :
        stack[i].fn = "handler" /\ stack[i].pc \in {"first", "second"}}

\* C18: the EntityTooLarge bisection bottoms out: a bisection nested in
\* another one works on a strictly shorter window, so that a window that
\* cannot be halved any more is given up.
C18_NestedBisectionShrinks ==
    \A i, j \in Bisecting :
        i < j => stack[j].to_date - stack[j].from_date
                    < stack[i].to_date - stack[i].from_date

RunDone == run.pc = "done"
RunSucceeded == RunDone /\ run.status = "success"

\* C11 as stated: a run that ends with status success has processed as many
\* records as its batches held and as its page requests returned.
C11_SuccessCountsAgree ==
    RunSucceeded =>
        /\ run.records_processed = run.flushed
        /\ run.records_processed = obs.hits

\* C11 amended: the same for a run none of whose probes and page requests
\* has failed.
C11_CleanSuccessCountsAgree ==
    (RunSucceeded /\ ~obs.failed) =>
        /\ run.records_processed = run.flushed
        /\ run.records_processed = obs.hits

\* a clean run that has loaded several batches
C11_Witness ==
    /\ RunSucceeded
    /\ ~obs.failed
    /\ obs.loads >= 2
    /\ obs.hits > run.batch_size

\* C12 as stated: the buffer never holds more than batch_size records, holds
\* batch_size records whenever a load job is started, and is empty after
\* every load job that succeeded.
C12_BufferFullAtFlushEmptyAfter ==
    /\ run.batch_data <= run.batch_size
    /\ run.last_op \in {"flush_full", "flush_rest", "flush_failed"} =>
            run.flush_size = run.batch_size
    /\ run.last_op \in {"flush_full", "flush_rest"} => run.batch_data = 0

\* C12 amended: the buffer never holds more than batch_size records; a load
\* job started in the record loop takes batch_size records and leaves the
\* buffer empty when it succeeds; the load job of the rest, after the loop,
\* takes between 1 and batch_size - 1 records and leaves the buffer alone.
C12_BufferFullAtLoopFlush ==
    /\ run.batch_data <= run.batch_size
    /\ run.last_op = "flush_full" =>
            run.flush_size = run.batch_size /\ run.batch_data = 0
    /\ run.last_op = "flush_rest" =>
            /\ 0 < run.flush_size
            /\ run.flush_size < run.batch_size
            /\ run.batch_data = run.flush_size
    /\ run.last_op = "flush_failed" =>
            0 < run.flush_size /\ run.flush_size <= run.batch_size

\* a full batch has just been loaded, not the first one, records being left
C12_Witness ==
    /\ run.pc = "batching"
    /\ run.last_op = "flush_full"
    /\ run.batch_count >= 2
    /\ run.remaining > 0

\* C13: a run ends with one summary and no exception leaves run_pipeline;
\* an exception of the fetch or of a load gives status error with its
\* message; a fetch that returned no record gives status success with
\* records_processed 0 and no load job.
C13_OneSummaryNoException ==
    /\ run.pc # "propagated"
    /\ run.summaries = (IF RunDone THEN 1 ELSE 0)
    /\ RunDone => run.status \in {"success", "error"}
    /\ (RunDone /\ run.fetched = "exc") =>
            run.status = "error" /\ run.error = ret.exc /\ run.error # ""
    /\ (RunDone /\ obs.load_failed) =>
            run.status = "error" /\ run.error = "GoogleCloudError"
    /\ (RunDone /\ run.fetched = "value" /\ run.raw_data = <<>>) =>
            /\ run.status = "success"
            /\ run.records_processed = 0
            /\ obs.loads = 0
            /\ ~obs.load_failed

\* a run ended by an exception of the fetch
C13_Witness ==
    /\ RunDone
    /\ run.fetched = "exc"
    /\ run.status = "error"
    /\ run.error = "forbidden 403"

\* C14: the summary of a run aborted by a 401 has status error and counts
\* the records of the batches loaded before.
C14_AbortSummaryCountsLoaded ==
    (RunDone /\ run.error = "auth error 401") =>
        /\ run.status = "error"
        /\ run.records_processed = obs.warehouse

\* C15: after a failed load job the run is over with status error, no load
\* job is started any more, and the table holds what the batches before
\* put there.
C15_LoadFailureEndsRun ==
    obs.load_failed =>
        /\ RunDone
        /\ run.status = "error"
        /\ ~obs.load_after_failure
        /\ obs.warehouse = run.flushed
        /\ obs.loads = run.batch_count - 1

\* the second batch of a run has failed to load
C15_Witness ==
    /\ obs.load_failed
    /\ obs.loads >= 1
    /\ obs.warehouse >= run.batch_size
    /\ RunDone

\* the frame under the top one, before and after a step
Caller == stack[Len(stack) - 1]
CallerAfter == stack'[Len(stack') - 1]
TopAfter == stack'[Len(stack')]

\* C25: when a page request of the window [from, to) being paginated fails
\* with EntityTooLarge, the handler is called on that window; it fetches
\* [from, mid) and then [mid, to) with mid = from + (to - from) / 2, and
\* when both fetches return, their lists, first half first, are what the
\* handler and then fetch_data_from_api return: the pages read before the
\* failure are not part of it.
C25_TooLargeReturnsBothHalves ==
    [][/\ (InFrame("fetch", "paginate") /\ pg.pc = "etl") =>
            /\ Len(stack') = Len(stack) + 1
            /\ TopAfter = Frame("handler", Top.from_date, Top.to_date, 0)
            /\ CallerAfter.pc = "handling"
       /\ (InFrame("handler", "enter") /\ Top.retry_count < handler_max_retries) =>
            /\ Len(stack') = Len(stack) + 1
            /\ CallerAfter.split = Top.from_date + Half(Top.to_date - Top.from_date)
            /\ TopAfter = Frame("fetch", Top.from_date, CallerAfter.split, 0)
       /\ (InFrame("handler", "first") /\ ret.kind = "value") =>
            /\ Len(stack') = Len(stack) + 1
            /\ CallerAfter.all_data = ret.val
            /\ TopAfter = Frame("fetch", Top.split, Top.to_date, 0)
       /\ (InFrame("handler", "second") /\ ret.kind = "value") =>
            /\ stack' = Popped
            /\ ret' = Returned(Top.all_data \o ret.val)
       /\ (InFrame("fetch", "handling") /\ ret.kind = "value") =>
            /\ stack' = Popped
            /\ ret' = ret
      ]_vars

\* a half's fetch has raised into the handler
HalfRaised ==
    /\ Len(stack) > 0
    /\ Top.fn = "handler"
    /\ Top.pc \in {"first", "second"}
    /\ ret.kind = "exc"

C29_BothHalvesOrNothing ==
    [][(Len(stack) > 0 /\ Top.fn = "handler" /\ stack' = Popped) =>
          /\ ret'.kind = "value"
          /\ \/ ret'.val = <<>>
             \/ /\ Top.pc = "second"
                /\ ret.kind = "value"
                /\ ret'.val = Top.all_data \o ret.val
             \/ /\ Top.pc = "retrying"
                /\ ret' = ret
          /\ (Top.pc = "second" /\ ret.kind = "exc") => ret'.val = <<>>
      ]_vars

\* the first half had returned records, the second half's fetch raised,
\* and the retry that followed has returned the empty list
C29_Witness ==
    /\ InFrame("handler", "retrying")
    /\ Top.all_data # <<>>
    /\ ret.kind = "value"
    /\ ret.val = <<>>

\* the failure came after pages had been read, both halves were fetched
\* and returned records, and the handler's list is back in
\* fetch_data_from_api
C25_Witness ==
    /\ InFrame("fetch", "handling")
    /\ Top.all_data # <<>>
    /\ ret.kind = "value"
    /\ Len(ret.val) >= 2
    /\ ret.val[1].to <= ret.val[2].from

(***************************************************************************)
(* Properties of get_estimated_count (checked under SpecProbe).            *)
(***************************************************************************)
ProbeOver == rr.pc \in {"returned", "raised"}
ProbeAnsweredOk ==
    rr.last.kind = "http" /\ rr.last.status < 400

\* C21: the call returns the total of the response, or the length of its
\* data when it has no total; it returns None on every failure but a 401,
\* and raises on a 401 only.
C21_CountOrAbsentUnless401 ==
    ProbeOver =>
        /\ rr.pc = "raised" <=> (rr.last.kind = "http" /\ rr.last.status = 401)
        /\ (rr.pc = "returned" /\ ProbeAnsweredOk) =>
                rr.count = (IF rr.last.has_total THEN rr.last.total
                            ELSE rr.last.ndata)
        /\ (rr.pc = "returned" /\ ~ProbeAnsweredOk) => rr.count = Absent

(***************************************************************************)
(* Properties of upload_batch_to_bigquery (checked under SpecMap).         *)
(***************************************************************************)
\* the default name of a key: an underscore before every uppercase letter
\* not at position 0, all lowercased
DefaultName(key) ==
    LET Piece(i) == IF i > 1 /\ IsUpper(key[i]) THEN <<"_", LowerOf(key[i])>>
                    ELSE <<LowerOf(key[i])>>
        Cat[i \in 0..Len(key)] == IF i = 0 THEN <<>> ELSE Cat[i - 1] \o Piece(i)
    IN Cat[Len(key)]

\* C22: every item (k, v) of every record comes back as (column_mapping[k],
\* v) when the mapping names k and as (default name of k, v) otherwise,
\* whatever the mapping.
C22_KeysRenamedValuesKept ==
    rr.pc # "call" =>
        \A r \in 1..Len(data) :
            \A i \in 1..Len(data[r]) :
                LET k == data[r][i][1]
                    v == data[r][i][2]
                    name == IF k \in DOMAIN env.column_mapping
                            THEN env.column_mapping[k] ELSE DefaultName(k)
                IN \E j \in 1..Len(rr.processed_data[r]) :
                       rr.processed_data[r][j] = <<name, v>>

\* the columns the watermark query of get_last_sync_timestamp reads
LoadedAtKey == <<"_", "l", "o", "a", "d", "e", "d", "_", "a", "t">>
PipelineVersionKey ==
    <<"_", "p", "i", "p", "e", "l", "i", "n", "e", "_", "v", "e", "r", "s", "i", "o", "n">>
HasColumn(row, key) == \E j \in 1..Len(row) : row[j][1] = key

\* C23: every row loaded into the destination table carries _loaded_at and
\* _pipeline_version = "1.0.0", so that MAX(_loaded_at) exists after a
\* successful load.
C23_LoadedRowsCarryLoadStamp ==
    \A i \in 1..Len(obs.warehouse) :
        /\ HasColumn(obs.warehouse[i], LoadedAtKey)
        /\ \E j \in 1..Len(obs.warehouse[i]) :
               /\ obs.warehouse[i][j][1] = PipelineVersionKey
               /\ obs.warehouse[i][j][2] = "1.0.0"

(***************************************************************************)
(* Properties of the planner (checked under SpecPlan).                     *)
(***************************************************************************)
PlanReturned == pl.pc = "done"

\* C2: a planner call with start < max_end_date returns an end that is not
\* after max_end_date, whatever the probes returned.
C2_EndWithinMaxEnd ==
    (PlanReturned /\ pl.start_date < pl.max_end_date) =>
        pl.result <= pl.max_end_date

\* C3 as stated: with every probe returning the stable total, the window up
\* to the returned end holds at most `target` records.
C3_ReturnedWindowUnderCeiling ==
    (PlanReturned /\ pl.stable /\ pl.start_date < pl.max_end_date) =>
        Count(pl.start_date, pl.result) <= pl.target

\* C3 amended: with every probe returning the stable total, the returned
\* window holds at most `target` records whenever the planner worked at day
\* grain, and at hour grain whenever the first hour alone does; at hour grain
\* with a first hour over the ceiling the planner returns start + 1 hour.
C3_UnderCeilingUnlessFirstHourOver ==
    (PlanReturned /\ pl.stable /\ pl.start_date < pl.max_end_date) =>
        /\ (pl.grain = "day"
              \/ Count(pl.start_date, pl.start_date + HourTicks) <= pl.target)
            => Count(pl.start_date, pl.result) <= pl.target
        /\ (pl.grain = "hour"
              /\ Count(pl.start_date, pl.start_date + HourTicks) > pl.target)
            => pl.result = pl.start_date + HourTicks

\* an hour-grain search that accepted a window of several hours holding
\* records, the next hour being over the ceiling
C3_Witness ==
    /\ PlanReturned
    /\ pl.stable
    /\ pl.grain = "hour"
    /\ pl.start_date < pl.max_end_date
    /\ pl.result > pl.start_date + HourTicks
    /\ Count(pl.start_date, pl.result) > 0
    /\ Count(pl.start_date, pl.result) <= pl.target
    /\ Count(pl.start_date, pl.result + HourTicks) > pl.target

\* C19: a planner call with max_end_date <= start returns max_end_date.
C19_EmptyWindowReturnsMaxEnd ==
    (PlanReturned /\ pl.max_end_date <= pl.start_date) =>
        pl.result = pl.max_end_date

\* start + 1 unit of the grain the planner worked at
OneUnitEnd ==
    pl.start_date + (IF pl.grain = "hour" THEN HourTicks ELSE DayTicks)

\* C20 as stated: when the first probe of a call is absent the planner
\* returns start + 1 unit, whatever the later probes returned.
C20_FirstAbsentReturnsOneUnit ==
    (PlanReturned /\ pl.first = Absent) => pl.result = OneUnitEnd

\* C20 amended: when the first probe of a call (the one-day probe) is absent
\* the planner works at day grain; it returns start + 1 day when no probe of
\* the day loop is accepted, and otherwise the end of an accepted probe,
\* which is not after max_end_date.
C20_FirstAbsentDayGrain ==
    (PlanReturned /\ pl.first = Absent) =>
        /\ pl.grain = "day"
        /\ pl.accepted = 0 => pl.result = pl.start_date + DayTicks
        /\ pl.accepted > 0 => pl.result <= pl.max_end_date

\* the first probe and the probes of the day loop were absent
C20_Witness ==
    /\ PlanReturned
    /\ pl.first = Absent
    /\ pl.nprobes >= 3
    /\ pl.accepted = 0
    /\ pl.result = pl.start_date + DayTicks
    /\ pl.result < pl.max_end_date

\* the ends a bisection may test: min(start + k days, max_end_date) for
\* k = 1 .. daysBetween + 1 at day grain, start + k hours for
\* k = 1 .. hoursBetween of the one-day window at hour grain
DayCandidates ==
    {Min(pl.start_date + k * DayTicks, pl.max_end_date) :
        k \in 1..(((pl.max_end_date - pl.start_date) \div DayTicks) + 1)}
HourCandidates ==
    {pl.start_date + k * HourTicks :
        k \in 1..TruncDiv(Min(pl.start_date + DayTicks, pl.max_end_date) - pl.start_date,
                          HourTicks)}
UnderCeiling(ends) == {e \in ends : Count(pl.start_date, e) <= pl.target}
Largest(ends) == CHOOSE e \in ends : \A f \in ends : f <= e

\* C24: with every probe returning the stable total (monotone in the window
\* end), a day-grain search entered with start < max_end_date (one-day
\* count <= target) has a candidate end whose count is <= target and returns
\* the largest of them, a count equal to target being accepted; an
\* hour-grain search returns the largest hour candidate whose count is
\* <= target when there is one.
C24_BisectionReturnsLargestUnderCeiling ==
    (PlanReturned /\ pl.stable) =>
        /\ (pl.grain = "day" /\ pl.start_date < pl.max_end_date) =>
              /\ UnderCeiling(DayCandidates) # {}
              /\ pl.result = Largest(UnderCeiling(DayCandidates))
        /\ (pl.grain = "hour" /\ UnderCeiling(HourCandidates) # {}) =>
              pl.result = Largest(UnderCeiling(HourCandidates))

\* a day-grain search that returned, after three probes or more, an end
\* before max_end_date whose count equals the ceiling, the next candidate
\* being over it
C24_Witness ==
    /\ PlanReturned
    /\ pl.stable
    /\ pl.grain = "day"
    /\ pl.nprobes >= 3
    /\ pl.result < pl.max_end_date
    /\ Count(pl.start_date, pl.result) = pl.target
    /\ Count(pl.start_date, Min(pl.result + DayTicks, pl.max_end_date)) > pl.target

(***************************************************************************)
(* Properties of request_with_retry and of the pagination loop             *)
(* (checked under SpecRetry).                                              *)
(***************************************************************************)
IsHttp(resp) == resp.kind = "http"
Is4xx(resp) == IsHttp(resp) /\ 400 <= resp.status /\ resp.status < 500
Is5xx(resp) == IsHttp(resp) /\ 500 <= resp.status /\ resp.status < 600

\* the sleep before the i-th retry: 2 s, 4 s, 8 s
BackoffSchedule == [i \in 1..max_retries |-> initial_wait * (2 ^ (i - 1))]

\* a failure the claim C7 is about: a 5xx without the EntityTooLarge body,
\* a timeout or a connection error
RetryableFailure(resp) ==
    \/ resp.kind \in {"timeout", "connerr"}
    \/ Is5xx(resp) /\ ~resp.too_large

\* the request in flight was not followed by a sleep or a retry
NoSleepAfterLastRequest ==
    /\ Len(rr.sleeps) = rr.nreq - 1
    /\ rr.nreq = rr.retry_count + 1

\* C6: whenever a request carrying an OAuth bearer is in flight, the clock is
\* strictly before the token's stored validity limit.
C6_BearerNeverSentExpired ==
    (rr.pc = "await" /\ pg.bearer # 0) => now < token_expires_at

\* C7: within one call the sleeps are 2 s, 4 s, 8 s in this order, one per
\* retry whatever the kind of failure; the call never sends more than 4
\* requests, and when it fails on a retryable failure it has made exactly 3
\* retries and sent exactly 4 requests.
C7_RetrySchedule ==
    /\ rr.retry_count = Len(rr.sleeps)
    /\ rr.retry_count <= max_retries
    /\ rr.nreq <= max_retries + 1
    /\ \A i \in 1..Len(rr.sleeps) : rr.sleeps[i] = BackoffSchedule[i]
    /\ (rr.pc = "raised" /\ RetryableFailure(rr.last)) =>
          /\ rr.retry_count = max_retries
          /\ rr.nreq = max_retries + 1
          /\ rr.sleeps = BackoffSchedule

\* a call that failed after 3 retries on a mix of all three failure kinds
C7_Witness ==
    /\ rr.pc = "raised"
    /\ RetryableFailure(rr.last)
    /\ rr.sleeps = <<2, 4, 8>>
    /\ rr.nreq = 4
    /\ {rr.kinds[i] : i \in 1..Len(rr.kinds)} = {"5xx", "timeout", "connerr"}

\* C8: a 4xx response ends the call with an exception, and a response below
\* 400 ends it with the response; in both cases no sleep and no further
\* request follow the request that was answered, whatever the retry count.
C8_ClientErrorFailsAtOnce ==
    /\ Is4xx(rr.last) => (rr.pc = "raised" /\ NoSleepAfterLastRequest)
    /\ (IsHttp(rr.last) /\ rr.last.status < 400) =>
          (rr.pc = "returned" /\ NoSleepAfterLastRequest)

\* a 404 answered to the third request of a call (after two retries)
C8_Witness ==
    /\ rr.last = Http(404, FALSE)
    /\ rr.retry_count = 2
    /\ rr.nreq = 3
    /\ rr.pc = "raised"

\* C9 as stated: every 5xx response whose body has the EntityTooLarge text
\* raises the typed error at once.
C9_Any5xxTooLargeRaisesTyped ==
    (Is5xx(rr.last) /\ rr.last.too_large) =>
        (rr.pc = "etl" /\ NoSleepAfterLastRequest)

\* C9 amended: a response with status exactly 500 and the EntityTooLarge
\* text raises the typed error at once, with no sleep and no retry; a 5xx of
\* another status with that text is never turned into the typed error and is
\* retried like any server error (the call fails only after 4 requests).
C9_Status500TooLargeRaisesTyped ==
    /\ (IsHttp(rr.last) /\ rr.last.status = 500 /\ rr.last.too_large) =>
          /\ rr.pc = "etl"
          /\ rr.exc = "ResponseEntityTooLargeError"
          /\ NoSleepAfterLastRequest
    /\ (Is5xx(rr.last) /\ rr.last.status # 500 /\ rr.last.too_large) =>
          /\ rr.pc # "etl"
          /\ rr.pc = "raised" => rr.nreq = max_retries + 1

\* the typed error raised on the second request of a call
C9_Witness ==
    /\ rr.last = Http(500, TRUE)
    /\ rr.pc = "etl"
    /\ rr.nreq = 2
    /\ pg.pc = "etl"

\* C10: a 429, 502, 503 or 504 response makes the call fail only once the
\* three retries with 2 s, 4 s, 8 s sleeps are used up.
C10_ThrottleAndGatewayRetried ==
    (IsHttp(rr.last) /\ rr.last.status \in {429, 502, 503, 504} /\ rr.pc = "raised") =>
        (rr.nreq = max_retries + 1 /\ rr.sleeps = BackoffSchedule)

\* C27: the page requests of one window go out with offset 0 first and then
\* with the number of hits received so far, every page before the one
\* being requested having been full; there are never more than max_pages of
\* them nor more than max_pages * page_size records; and the loop ends
\* with the first page of fewer than page_size hits (zero included) or with
\* page max_pages, whichever comes first.
C27_PaginationBounded ==
    /\ pg.page <= max_pages
    /\ pg.ndata <= max_pages * page_size
    /\ pg.pc = "request" =>
          /\ pg.offset = pg.ndata
          /\ pg.offset = obs.hits
          /\ pg.offset = (pg.page - 1) * page_size
    /\ pg.pc = "done" =>
          /\ pg.page = Min((pg.total \div page_size) + 1, max_pages)
          /\ pg.ndata = Min(pg.total, max_pages * page_size)

\* a window of more than 2000 records whose loop ended after page 100 with
\* 2000 records
C27_Witness ==
    /\ pg.pc = "done"
    /\ pg.total > max_pages * page_size
    /\ pg.page = max_pages
    /\ pg.ndata = max_pages * page_size
    /\ obs.hits = max_pages * page_size

(***************************************************************************)
(* Properties of the adaptive fetch without EntityTooLarge (checked under  *)
(* SpecTerm).                                                              *)
(***************************************************************************)
\* the window a recursive call was made on: the frame's to_date is the
\* call's until the planner's end replaces it (line 625)
CalledOn(i, from, to) ==
    /\ stack[i].from_date = from
    /\ stack[i].pc \in {"enter", "planning"} => stack[i].to_date = to

\* C28: whatever the probes return, a planner call on a window with
\* start < max_end_date returns an end after start; a call of
\* fetch_data_from_api that splits its window [from, to) does so at an
\* optimal_end with from < optimal_end < to and calls itself on
\* [from, optimal_end) and then on [optimal_end, to), both non-empty and
\* strictly shorter than [from, to); and the call of fetch_data_from_api
\* returns.
C28_AdaptiveFetchTerminates ==
    /\ []((pl.pc = "done" /\ pl.start_date < pl.max_end_date) =>
              pl.result > pl.start_date)
    /\ [](\A i \in 2..Len(stack) :
              LET caller == stack[i - 1] IN
              /\ caller.pc \in {"first", "second"}
              /\ caller.from_date < caller.split
              /\ caller.split < caller.to_date
              /\ caller.pc = "first" => CalledOn(i, caller.from_date, caller.split)
              /\ caller.pc = "second" => CalledOn(i, caller.split, caller.to_date))
    /\ <>(stack = <<>> /\ ret.kind = "value")

\* the call has returned the pages of three windows or more after probes
\* that failed
C28_Witness ==
    /\ stack = <<>>
    /\ ret.kind = "value"
    /\ Len(ret.val) >= 3
    /\ obs.failed

====
